---- MODULE Spec2Model ----
(***************************************************************************)
(* Model of the notebook "Package Data.ipynb" (American Gut packaging).    *)
(*                                                                         *)
(* The notebook is a sequence of code cells run once, in order, by one     *)
(* kernel.  An exception aborts the cell that raised it; the kernel keeps  *)
(* its namespace and the file system keeps what was written, and the next  *)
(* cell is run.  A shell escape ("!cmd") never raises: a failing command   *)
(* leaves the file system as it was and the cell goes on.                  *)
(*                                                                         *)
(* Data is abstracted to what the packaged files are compared on:          *)
(*   - a sample is a number in Samples, a depth an index into the list     *)
(*     depths (increasing), an alpha metric an index into alpha_metrics;   *)
(*   - a table with missing cells is a function whose domain holds the     *)
(*     rows that have a value (NaN = not in the domain);                   *)
(*   - an alpha value is an integer, a mean an exact fraction;             *)
(*   - a biom table is the set of its sample IDs (plus, for the rarefied   *)
(*     tables, features and taxonomy).                                     *)
(***************************************************************************)
EXTENDS Integers, Sequences, FiniteSets, TLC

\* ------------------------------------------------------------------ bounds
NumSamples == 2
NumDepths == 2
NumMetrics == 2
NumIter == 2
MaxStrLen == 2
MaxListLen == 2

Samples == 1..NumSamples
\* depths = ['1250', '2500', '5000', '10000', '50000']: the index in the list
depths == 1..NumDepths
\* alpha_metrics = ['observed_otus', 'faiths_pd', 'shannon']: the index
alpha_metrics == 1..NumMetrics
\* np.arange(0, 10)
Iters == 0..(NumIter - 1)
beta_metrics == <<"bray_curtis", "unweighted", "weighted-normalized", "weighted-unnormalized">>
collapse_levels == <<"_L1", "_L2", "_L3">>

VARIABLES
    reads,          \* input: reads[s] = number of depths of the list that sample s reaches
    dev,            \* input: the one way in which the input tree or kernel departs from the nominal one
    pc,             \* [cell, step, d, m, i]: the statement the kernel is at
    raised,         \* the cells that were aborted by an exception
    readLog,        \* every file a cell tried to read, and whether it was there
    taxa_lookup,    \* kernel: bound or not
    map_,           \* kernel: the accumulated metadata table
    alpha_,         \* kernel: list of per-iteration tables of the current metric
    collated,       \* kernel: list of per-metric tables of the current depth
    sample_ids,     \* kernel: dict depth -> index
    alphaDir,       \* ./02.build_package/03.alpha/<depth>/<metric>/alpha-diversity.tsv
    tableTemp,      \* ./table_temp/feature-table.biom
    rare,           \* ./03.packaged/<depth>/deblur_125nt_no_blooms_rare.biom
    collated_alpha, \* ./03.packaged/<depth>/collated_alpha.txt
    sample_id,      \* ./03.packaged/<depth>/sample_id.txt
    ag_map,         \* ./03.packaged/<depth>/ag_map_with_alpha.txt
    deblur,         \* ./03.packaged/<depth>/deblur_125nt_no_blooms.biom
    picrust,        \* ./03.packaged/<depth>/picrust/..._pred<collapse>.biom
    picrust_full,   \* ./03.packaged/<depth>/picrust/..._pred.biom
    distance,       \* ./03.packaged/<depth>/distance/<metric>.txt
    temp_dir,       \* ./02.build_package/04.beta/<depth>/temp_dir/
    listed,         \* what os.listdir(temp_dir) returned, per (depth, metric)
    md,             \* round trip: the metadata value handed to the formatter
    stored,         \* round trip: the array the formatter hands to the vlen writer
    parsed,         \* round trip: what the parser returns for the stored array
    rt              \* round trip: position

kernelVars == <<taxa_lookup, map_, alpha_, collated, sample_ids>>
alphaFiles == <<alphaDir, collated_alpha, sample_id, ag_map>>
tableFiles == <<tableTemp, rare, deblur, picrust, picrust_full>>
betaFiles == <<distance, temp_dir, listed>>
rtVars == <<md, stored, parsed, rt>>
inputVars == <<reads, dev>>
vars == <<inputVars, pc, raised, readLog, kernelVars, alphaFiles, tableFiles, betaFiles, rtVars>>

\* ------------------------------------------------------------ small helpers
EmptyFn == [x \in {} |-> 0]

RECURSIVE GCD(_, _)
GCD(a, b) == IF b = 0 THEN a ELSE GCD(b, a % b)

RECURSIVE SumOver(_, _)
SumOver(f, S) ==
    IF S = {} THEN 0
    ELSE LET x == CHOOSE y \in S : TRUE IN f[x] + SumOver(f, S \ {x})

RECURSIVE UnionOf(_, _)
\* the union of the index of the tables t[1..n]
UnionOf(t, n) == IF n = 0 THEN {} ELSE DOMAIN t[n].vals \cup UnionOf(t, n - 1)

\* ------------------------------------------------------------------- input
NoDev == [kind |-> "none", d |-> 0, m |-> 0, i |-> 0, s |-> 0]

\* The samples the upstream pipeline keeps at depth d: those with at least
\* depths[d] observations.
Eligible(d) == {s \in Samples : reads[s] >= d}

\* The artifact ./02.build_package/03.alpha/<d>/<m>_r<i>.qza is there.
AlphaArtifactExists(d, m, i) ==
    ~(dev.kind = "alpha_missing" /\ dev.d = d /\ dev.m = m /\ dev.i = i)

\* The samples the artifact lists.
AlphaArtifactSamples(d, m, i) ==
    LET here == dev.d = d /\ dev.m = m /\ dev.i = i IN
    CASE dev.kind = "alpha_absent" /\ here -> Eligible(d) \ {dev.s}
      [] dev.kind = "alpha_extra" /\ here -> Eligible(d) \cup {dev.s}
      [] OTHER -> Eligible(d)

\* The value the artifact holds for sample s (some number that differs
\* between samples, iterations, metrics and depths).
AlphaValue(d, m, i, s) == 10 * s + 3 * i + m + d

\* The artifact ./02.build_package/04.beta/<d>/<metric>.qza is there.
BetaArtifactExists(d, m) ==
    ~(dev.kind = "beta_missing" /\ dev.d = d /\ dev.m = m)

\* ./02.build_package/01.input/deblur_no_blooms_125nt_1250.biom and the
\* PICRUSt tables ("min1250"): the samples with at least depths[1] reads.
InputTableIds == {s \in Samples : reads[s] >= 1}

\* ./02.build_package/01.input/fecal_map_1250.txt: a row per sample; read_csv
\* turns an empty or "NA" cell into NaN also under dtype=str.
MetadataRows == Samples
MetadataNaN == IF dev.kind = "meta_nan" THEN {dev.s} ELSE {}

\* --------------------------------------------------------------- positions
CellOrder == <<"mkdirs", "taxa", "rarefied", "loadmap", "alpha",
               "loadpicrust", "subset", "loadfull", "full", "beta", "done">>

CellIndex(c) == CHOOSE k \in 1..Len(CellOrder) : CellOrder[k] = c

Pos(c, st, d, m, i) == [cell |-> c, step |-> st, d |-> d, m |-> m, i |-> i]

\* The first statement of each cell.
Entry(c) ==
    CASE c = "rarefied" -> Pos(c, "body", 1, 0, 0)
      [] c = "alpha" -> Pos(c, "iter", 1, 1, 0)
      [] c = "subset" -> Pos(c, "body", 1, 0, 0)
      [] c = "full" -> Pos(c, "body", NumDepths, 0, 0)
      [] c = "beta" -> Pos(c, "setup", 1, 0, 0)
      [] OTHER -> Pos(c, "body", 0, 0, 0)

NextCell(c) == Entry(CellOrder[CellIndex(c) + 1])

\* A file a cell reads: the tree it is in and whether it is there.
ReadOf(tree, d, name, present) ==
    [tree |-> tree, d |-> d, name |-> name, present |-> present, cell |-> pc.cell]

\* An exception: the cell is aborted, the next cell is run.
Raise ==
    /\ raised' = raised \cup {pc.cell}
    /\ pc' = NextCell(pc.cell)

NoFile == [exists |-> FALSE, ids |-> {}]
IdFile(ids) == [exists |-> TRUE, ids |-> ids]

\* ------------------------------------------------------- directory set-up
\* for depth in depths: os.makedirs('./03.packaged/%s' % depth)
MakeDirs ==
    /\ pc.cell = "mkdirs"
    /\ pc' = NextCell("mkdirs")
    /\ UNCHANGED <<inputVars, raised, readLog, kernelVars, alphaFiles, tableFiles,
                   betaFiles, rtVars>>

\* --------------------------------------------------------- taxonomy lookup
\* raw_t = load_table('./03.packaged/1250/deblur_125nt_no_blooms.biom')
\* The notebook imports biom, not load_table: the name is bound only if the
\* kernel got it from somewhere else (dev.kind = "load_table_bound"), and
\* otherwise the call is a NameError before any file is touched.
TaxaLookup ==
    /\ pc.cell = "taxa"
    /\ IF dev.kind # "load_table_bound"
       THEN /\ Raise
            /\ UNCHANGED <<readLog, taxa_lookup>>
       ELSE /\ readLog' = readLog \cup
                  {ReadOf("03.packaged", 1, "deblur_125nt_no_blooms.biom", deblur[1].exists)}
            /\ IF deblur[1].exists
               THEN /\ taxa_lookup' = TRUE
                    /\ pc' = NextCell("taxa")
                    /\ UNCHANGED raised
               ELSE /\ Raise
                    /\ UNCHANGED taxa_lookup
    /\ UNCHANGED <<inputVars, map_, alpha_, collated, sample_ids, alphaFiles, tableFiles,
                   betaFiles, rtVars>>

\* ----------------------------------------------------------- rarefied tables
\* What `qiime tools export` of ./02.build_package/02.rarefied/<d>/deblur_125nt_0.qza
\* leaves in ./table_temp: the rarefied table of depth d, without taxonomy.
ExportedRarefied(d) == [exists |-> TRUE, ids |-> Eligible(d), depth |-> d, taxonomy |-> FALSE]

\* table_.add_metadata(taxa_lookup, axis='observation')
AddTaxonomy(t) == [t EXCEPT !.taxonomy = TRUE]

\* The body of the loop for the first depth.  The export is a shell escape and
\* succeeds; then
\*   line 135  biom.load_table is called with two positional arguments, and it
\*             takes one: TypeError;
\*   line 136  taxa_lookup is bound only if the taxonomy cell succeeded;
\*   line 138  new_table_fp is opened for reading, and does not exist yet;
\*   line 139  the handle is not bound by the with statement, so f_ is no handle
\*             on new_table_fp.
\* No statement of the cell writes new_table_fp, and the first depth raises.
RarefiedExport ==
    /\ pc.cell = "rarefied"
    /\ tableTemp' = ExportedRarefied(pc.d)
    /\ Raise
    /\ UNCHANGED <<inputVars, readLog, kernelVars, alphaFiles, rare, deblur, picrust,
                   picrust_full, betaFiles, rtVars>>

\* ------------------------------------------------------------------ metadata
\* map_ = pd.read_csv('./02.build_package/01.input/fecal_map_1250.txt', ...)
\* map_.set_index('#SampleID'); map_.drop(['index'], axis='columns')
LoadMap ==
    /\ pc.cell = "loadmap"
    /\ map_' = [rows |-> MetadataRows, nan |-> MetadataNaN, alpha |-> EmptyFn]
    /\ readLog' = readLog \cup {ReadOf("02.build_package", 0, "fecal_map_1250.txt", TRUE)}
    /\ pc' = NextCell("loadmap")
    /\ UNCHANGED <<inputVars, raised, taxa_lookup, alpha_, collated, sample_ids,
                   alphaFiles, tableFiles, betaFiles, rtVars>>

\* ------------------------------------------------------------ alpha diversity
\* '%s_%s_%i' % (metric, depth, i)
IterColumn(m, d, i) == <<m, d, i>>

\* Mutant: the column name leaves the depth out.
MapColumnWithoutDepth(m, d) == <<m, 1>>

\* '%s_%s' % (metric, depth)
MapColumn(m, d) == <<m, d>>

\* What `qiime tools export $alpha_artifact --output-dir $alpha_dir` leaves in
\* alpha_dir: the artifact's alpha-diversity.tsv, or, the artifact missing,
\* whatever was there (the command fails and the cell goes on).
AlphaExport(d, m, i) ==
    IF AlphaArtifactExists(d, m, i)
    THEN [exists |-> TRUE, origin |-> <<d, m, i>>,
          vals |-> [s \in AlphaArtifactSamples(d, m, i) |-> AlphaValue(d, m, i, s)]]
    ELSE alphaDir[<<d, m>>]

\* pd.concat(tables, axis=1).index: the outer join of the indexes
ConcatIndex(cols) == UnionOf(cols, Len(cols))

\* Mutant: the sum of the cells that hold a value, divided by the number of columns.
RowMeanOverColumns(cols, s) ==
    LET have == {k \in 1..Len(cols) : s \in DOMAIN cols[k].vals}
        sum == SumOver([k \in have |-> cols[k].vals[s]], have)
        n == Len(cols)
        g == GCD(sum, n)
    IN  [num |-> sum \div g, den |-> n \div g]

\* alpha_.mean(1) for row s: the mean of the cells of the row that hold a value
RowMean(cols, s) ==
    LET have == {k \in 1..Len(cols) : s \in DOMAIN cols[k].vals}
        sum == SumOver([k \in have |-> cols[k].vals[s]], have)
        n == Cardinality(have)
        g == GCD(sum, n)
    IN  [num |-> sum \div g, den |-> n \div g]

\* map_.loc[index, column] = series
SetColumn(t, index, column, series) ==
    LET old == IF column \in DOMAIN t.alpha THEN t.alpha[column] ELSE EmptyFn
        new == [s \in index \cup DOMAIN old |-> IF s \in index THEN series[s] ELSE old[s]]
    IN  [t EXCEPT !.alpha = (column :> new) @@ t.alpha]

\* map_.dropna(): the rows without any missing cell, metadata or alpha
DropNa(t) ==
    LET keep == {s \in t.rows : /\ s \notin t.nan
                               /\ \A c \in DOMAIN t.alpha : s \in DOMAIN t.alpha[c]}
    IN  [exists |-> TRUE, rows |-> keep,
         alpha |-> [c \in DOMAIN t.alpha |-> [s \in keep |-> t.alpha[c][s]]]]

\* Mutant: the index of the last table read instead of that of the collated one.
SampleIdLinesOfLast(cols) == DOMAIN cols[Len(cols)].vals

\* '\n'.join(collated.index)
SampleIdLines(cols) == ConcatIndex(cols)

\* One pass of `for i in np.arange(0, 10)`: export, read, rename, append.
AlphaIter ==
    /\ pc.cell = "alpha" /\ pc.step = "iter"
    /\ LET d == pc.d
           m == pc.m
           i == pc.i
           file == AlphaExport(d, m, i)
           \* collated = [] and alpha_ = [] at the head of the enclosing loops
           alpha0 == IF i = 0 THEN <<>> ELSE alpha_
           collated0 == IF i = 0 /\ m = 1 THEN <<>> ELSE collated
       IN  /\ alphaDir' = [alphaDir EXCEPT ![<<d, m>>] = file]
           /\ readLog' = readLog \cup
                  {ReadOf("02.build_package", d, "alpha-diversity.tsv", file.exists)}
           /\ collated' = collated0
           /\ IF ~file.exists
              THEN /\ Raise
                   /\ alpha_' = alpha0
              ELSE /\ alpha_' = Append(alpha0, [label |-> IterColumn(m, d, i),
                                                 origin |-> file.origin,
                                                 vals |-> file.vals])
                   /\ pc' = IF i + 1 < NumIter
                            THEN Pos("alpha", "iter", d, m, i + 1)
                            ELSE Pos("alpha", "metric_end", d, m, 0)
                   /\ UNCHANGED raised
    /\ UNCHANGED <<inputVars, taxa_lookup, map_, sample_ids, collated_alpha, sample_id,
                   ag_map, tableFiles, betaFiles, rtVars>>

\* alpha_ = pd.concat(alpha_, axis=1); collated.append(alpha_);
\* map_.loc[alpha_.index, '%s_%s' % (metric, depth)] = alpha_.mean(1)
AlphaMetricEnd ==
    /\ pc.cell = "alpha" /\ pc.step = "metric_end"
    /\ LET index == ConcatIndex(alpha_) IN
       /\ collated' = collated \o alpha_
       /\ map_' = SetColumn(map_, index, MapColumn(pc.m, pc.d),
                            [s \in index |-> RowMean(alpha_, s)])
    /\ pc' = IF pc.m < NumMetrics
             THEN Pos("alpha", "iter", pc.d, pc.m + 1, 0)
             ELSE Pos("alpha", "depth_end", pc.d, 0, 0)
    /\ UNCHANGED <<inputVars, raised, readLog, taxa_lookup, alpha_, sample_ids,
                   alphaFiles, tableFiles, betaFiles, rtVars>>

\* collated = pd.concat(collated, axis=1); the three files of the depth
AlphaDepthEnd ==
    /\ pc.cell = "alpha" /\ pc.step = "depth_end"
    /\ collated_alpha' = [collated_alpha EXCEPT ![pc.d] =
           [exists |-> TRUE, index |-> ConcatIndex(collated), cols |-> collated]]
    /\ sample_ids' = (pc.d :> ConcatIndex(collated)) @@ sample_ids
    /\ ag_map' = [ag_map EXCEPT ![pc.d] = DropNa(map_)]
    /\ sample_id' = [sample_id EXCEPT ![pc.d] = IdFile(SampleIdLines(collated))]
    /\ pc' = IF pc.d < NumDepths
             THEN Pos("alpha", "iter", pc.d + 1, 1, 0)
             ELSE NextCell("alpha")
    /\ UNCHANGED <<inputVars, raised, readLog, taxa_lookup, map_, alpha_, collated,
                   alphaDir, tableFiles, betaFiles, rtVars>>

\* ------------------------------------------------- unrarefied and PICRUSt tables
\* biom subset-table --ids <file> --axis sample: the samples of the table that
\* the file lists (the inputs hold every listed sample)
SubsetTable(tableIds, ids) == tableIds \cap ids

\* Mutant: the ID file of the first depth for every depth.
SamplePathOfFirstDepth(d) == sample_id[1]

\* './03.packaged/%s/sample_id.txt' % depth
SamplePath(d) == sample_id[d]

\* picrust_tables = {'_L1': biom.load_table(...), '_L2': ..., '_L3': ...}
LoadPicrust ==
    /\ pc.cell = "loadpicrust"
    /\ readLog' = readLog \cup {ReadOf("02.raw_tables", 0, collapse_levels[k], TRUE) :
                                k \in 1..Len(collapse_levels)}
    /\ pc' = NextCell("loadpicrust")
    /\ UNCHANGED <<inputVars, raised, kernelVars, alphaFiles, tableFiles, betaFiles, rtVars>>

\* The body of the loop for one depth: the unrarefied table and the three
\* collapsed PICRUSt tables, each subset by a shell command to the IDs of the
\* depth's sample_id.txt.  With no such file the commands fail and write nothing.
SubsetTables ==
    /\ pc.cell = "subset"
    /\ LET d == pc.d
           ids == SamplePath(d)
       IN  /\ readLog' = readLog \cup
                  {ReadOf("03.packaged", d, "sample_id.txt", ids.exists),
                   ReadOf("02.build_package", 0, "deblur_no_blooms_125nt_1250.biom", TRUE)}
                  \cup {ReadOf("02.raw_tables", 0, collapse_levels[k], TRUE) :
                        k \in 1..Len(collapse_levels)}
           /\ IF ids.exists
              THEN /\ deblur' = [deblur EXCEPT ![d] = IdFile(SubsetTable(InputTableIds, ids.ids))]
                   /\ picrust' = [x \in DOMAIN picrust |->
                                    IF x[1] = d
                                    THEN IdFile(SubsetTable(InputTableIds, ids.ids))
                                    ELSE picrust[x]]
              ELSE UNCHANGED <<deblur, picrust>>
           /\ pc' = IF d < NumDepths THEN Pos("subset", "body", d + 1, 0, 0)
                    ELSE NextCell("subset")
    /\ UNCHANGED <<inputVars, raised, kernelVars, alphaFiles, tableTemp, rare,
                   picrust_full, betaFiles, rtVars>>

\* with h5py.File(fp_in) as f_: t_in = biom.Table.from_hdf5(f_, parse_fs=parse_fs)
LoadFull ==
    /\ pc.cell = "loadfull"
    /\ readLog' = readLog \cup {ReadOf("02.raw_tables", 0, "", TRUE)}
    /\ pc' = NextCell("loadfull")
    /\ UNCHANGED <<inputVars, raised, kernelVars, alphaFiles, tableFiles, betaFiles, rtVars>>

\* t_in.filter(id_, axis='sample', inplace=False)
FilterTable(tableIds, ids) == tableIds \cap ids

\* The body of `for depth in depths[::-1]`: the full PICRUSt table filtered to
\* sample_ids[depth]; a depth the alpha cell did not finish is a KeyError.
FullPicrust ==
    /\ pc.cell = "full"
    /\ LET d == pc.d IN
       IF d \notin DOMAIN sample_ids
       THEN /\ Raise
            /\ UNCHANGED <<readLog, picrust_full>>
       ELSE /\ readLog' = readLog \cup {ReadOf("02.raw_tables", 0, "", TRUE)}
            /\ picrust_full' = [picrust_full EXCEPT ![d] =
                                  IdFile(FilterTable(InputTableIds, sample_ids[d]))]
            /\ pc' = IF d > 1 THEN Pos("full", "body", d - 1, 0, 0) ELSE NextCell("full")
            /\ UNCHANGED raised
    /\ UNCHANGED <<inputVars, kernelVars, alphaFiles, tableTemp, rare, deblur, picrust,
                   betaFiles, rtVars>>

\* ------------------------------------------------------------ beta diversity
\* An extracted artifact in temp_dir: <uuid>/data/distance-matrix.tsv.  The
\* uuid is that of the artifact of (depth, metric m).
Extracted(m) == [origin |-> m, matrix |-> TRUE]

\* !qiime tools extract $old_filepath --output-dir $temp_dir
Extract(entries, d, m) ==
    IF BetaArtifactExists(d, m) THEN entries \cup {Extracted(m)} ELSE entries

\* Mutant: the extracted directory is left behind.
KeepExtracted(entries, e) == entries

\* !rm -r $uuid_dir
RemoveExtracted(entries, e) == entries \ {e}

\* if not os.path.exists(temp_dir): os.makedirs(temp_dir); the same for distance/
BetaSetup ==
    /\ pc.cell = "beta" /\ pc.step = "setup"
    /\ temp_dir' = [temp_dir EXCEPT ![pc.d] =
                      IF temp_dir[pc.d].exists THEN temp_dir[pc.d]
                      ELSE [exists |-> TRUE, entries |-> {}]]
    /\ pc' = Pos("beta", "metric", pc.d, 1, 0)
    /\ UNCHANGED <<inputVars, raised, readLog, kernelVars, alphaFiles, tableFiles,
                   distance, listed, rtVars>>

\* One pass of the loop over the distance metrics: extract, list, move, remove.
BetaMetric ==
    /\ pc.cell = "beta" /\ pc.step = "metric"
    /\ LET d == pc.d
           m == pc.m
           entries == Extract(temp_dir[d].entries, d, m)
       IN  /\ readLog' = readLog \cup
                  {ReadOf("02.build_package", d, beta_metrics[m], BetaArtifactExists(d, m))}
           /\ listed' = [listed EXCEPT ![<<d, m>>] = entries]
           /\ IF entries = {}
              THEN \* os.listdir(temp_dir)[0]: IndexError
                   /\ Raise
                   /\ temp_dir' = [temp_dir EXCEPT ![d].entries = entries]
                   /\ UNCHANGED distance
              ELSE \E e \in entries :  \* the order of os.listdir is arbitrary
                   IF ~e.matrix
                   THEN \* shutil.move: no such file
                        /\ Raise
                        /\ temp_dir' = [temp_dir EXCEPT ![d].entries = entries]
                        /\ UNCHANGED distance
                   ELSE /\ distance' = [distance EXCEPT ![<<d, m>>] =
                                          [exists |-> TRUE, origin |-> <<d, e.origin>>]]
                        /\ temp_dir' = [temp_dir EXCEPT ![d].entries =
                                          RemoveExtracted(entries, e)]
                        /\ pc' = IF m < Len(beta_metrics)
                                 THEN Pos("beta", "metric", d, m + 1, 0)
                                 ELSE Pos("beta", "cleanup", d, 0, 0)
                        /\ UNCHANGED raised
    /\ UNCHANGED <<inputVars, kernelVars, alphaFiles, tableFiles, rtVars>>

\* os.removedirs(temp_dir): a directory that is not empty is an OSError
BetaCleanup ==
    /\ pc.cell = "beta" /\ pc.step = "cleanup"
    /\ IF temp_dir[pc.d].entries # {}
       THEN /\ Raise
            /\ UNCHANGED temp_dir
       ELSE /\ temp_dir' = [temp_dir EXCEPT ![pc.d] = [exists |-> FALSE, entries |-> {}]]
            /\ pc' = IF pc.d < NumDepths THEN Pos("beta", "setup", pc.d + 1, 0, 0)
                     ELSE NextCell("beta")
            /\ UNCHANGED raised
    /\ UNCHANGED <<inputVars, readLog, kernelVars, alphaFiles, tableFiles, distance,
                   listed, rtVars>>

\* ------------------------------------------------ PICRUSt list-valued metadata
\* Python values: a str is a sequence of characters, a list a sequence of values.
Chars == {"a", "\"", "\\"}
PyStr(cs) == [t |-> "str", v |-> cs]
PyList(xs) == [t |-> "list", v |-> xs]
PyNone == [t |-> "none", v |-> <<>>]
PyError == [t |-> "error", v |-> <<>>]

SeqsUpTo(S, n) == UNION {[1..k -> S] : k \in 0..n}

\* json.dumps of a character inside a string
Escape(c) == IF c \in {"\"", "\\"} THEN <<"\\", c>> ELSE <<c>>

RECURSIVE EscapeAll(_, _)
EscapeAll(cs, k) == IF k > Len(cs) THEN <<>> ELSE Escape(cs[k]) \o EscapeAll(cs, k + 1)

RECURSIVE dumps(_)
RECURSIVE DumpItems(_, _)
\* json.dumps(x): the text, a sequence of characters
dumps(x) ==
    IF x.t = "str" THEN <<"\"">> \o EscapeAll(x.v, 1) \o <<"\"">>
    ELSE <<"[">> \o DumpItems(x.v, 1) \o <<"]">>
DumpItems(xs, k) ==
    IF k > Len(xs) THEN <<>>
    ELSE (IF k > 1 THEN <<",", " ">> ELSE <<>>) \o dumps(xs[k]) \o DumpItems(xs, k + 1)

Failed == [ok |-> FALSE, val |-> PyNone, next |-> 0]

RECURSIVE SkipSpace(_, _)
SkipSpace(txt, p) == IF p <= Len(txt) /\ txt[p] = " " THEN SkipSpace(txt, p + 1) ELSE p

RECURSIVE ParseString(_, _, _)
\* the characters of a string up to its closing quote, p after the opening one
ParseString(txt, p, acc) ==
    IF p > Len(txt) THEN Failed
    ELSE IF txt[p] = "\"" THEN [ok |-> TRUE, val |-> PyStr(acc), next |-> p + 1]
    ELSE IF txt[p] = "\\"
         THEN IF p + 1 > Len(txt) THEN Failed
              ELSE ParseString(txt, p + 2, Append(acc, txt[p + 1]))
    ELSE ParseString(txt, p + 1, Append(acc, txt[p]))

RECURSIVE ParseValue(_, _)
RECURSIVE ParseItems(_, _, _)
ParseValue(txt, p0) ==
    LET p == SkipSpace(txt, p0) IN
    IF p > Len(txt) THEN Failed
    ELSE IF txt[p] = "\"" THEN ParseString(txt, p + 1, <<>>)
    ELSE IF txt[p] = "["
         THEN LET q == SkipSpace(txt, p + 1) IN
              IF q <= Len(txt) /\ txt[q] = "]"
              THEN [ok |-> TRUE, val |-> PyList(<<>>), next |-> q + 1]
              ELSE ParseItems(txt, q, <<>>)
    ELSE Failed
\* the items of a list up to its closing bracket, p at an item
ParseItems(txt, p, acc) ==
    LET item == ParseValue(txt, p) IN
    IF ~item.ok THEN Failed
    ELSE LET q == SkipSpace(txt, item.next) IN
         IF q > Len(txt) THEN Failed
         ELSE IF txt[q] = "," THEN ParseItems(txt, q + 1, Append(acc, item.val))
         ELSE IF txt[q] = "]"
              THEN [ok |-> TRUE, val |-> PyList(Append(acc, item.val)), next |-> q + 1]
         ELSE Failed

\* json.loads(text): the value, or an error
loads(txt) ==
    LET r == ParseValue(txt, 1) IN
    IF r.ok /\ SkipSpace(txt, r.next) > Len(txt) THEN r.val ELSE PyError

\* np.atleast_1d(np.asarray(dumps(m[header]))): an array of one string, which
\* vlen_list_of_str_formatter writes as one row of the dataset
list_of_list_of_str_formatter(value) == <<dumps(value)>>

picrust_formatter(value) == list_of_list_of_str_formatter(value)

RECURSIVE ParseArgs(_, _)
ParseArgs(args, k) ==
    IF k > Len(args) THEN <<>> ELSE <<loads(args[k][1])>> \o ParseArgs(args, k + 1)

\* def picrust_parser(*args): new_value.append(loads(arg[0])) for each arg;
\* return new_value if new_value else None
picrust_parser(args) ==
    LET new_value == ParseArgs(args, 1) IN
    IF new_value # <<>> THEN PyList(new_value) ELSE PyNone

\* The metadata values: lists of strings
MetadataValues ==
    {PyList(xs) : xs \in SeqsUpTo({PyStr(cs) : cs \in SeqsUpTo(Chars, MaxStrLen)}, MaxListLen)}

\* to_hdf5(..., format_fs=format_fs): the formatter is applied to the value
Format ==
    /\ rt = "value"
    /\ stored' = picrust_formatter(md)
    /\ rt' = "stored"
    /\ UNCHANGED <<inputVars, pc, raised, readLog, kernelVars, alphaFiles, tableFiles,
                   betaFiles, md, parsed>>

\* from_hdf5(..., parse_fs=parse_fs): the parser is applied to the stored row
Parse ==
    /\ rt = "stored"
    /\ parsed' = picrust_parser(<<stored>>)
    /\ rt' = "parsed"
    /\ UNCHANGED <<inputVars, pc, raised, readLog, kernelVars, alphaFiles, tableFiles,
                   betaFiles, md, stored>>

\* ------------------------------------------------------------ specifications
\* The inputs: a read count per sample, at least one sample reaching every
\* depth, and at most one departure from the nominal input tree.
Deviations(r) ==
    {NoDev}
    \cup {[kind |-> "alpha_missing", d |-> d, m |-> m, i |-> i, s |-> 0] :
            d \in depths, m \in alpha_metrics, i \in Iters}
    \cup {x \in [kind : {"alpha_absent"}, d : depths, m : alpha_metrics, i : Iters, s : Samples] :
            r[x.s] >= x.d}
    \cup {x \in [kind : {"alpha_extra"}, d : depths, m : alpha_metrics, i : Iters, s : Samples] :
            1 <= r[x.s] /\ r[x.s] < x.d}
    \cup {[kind |-> "beta_missing", d |-> d, m |-> m, i |-> 0, s |-> 0] :
            d \in depths, m \in 1..Len(beta_metrics)}
    \cup {[kind |-> "meta_nan", d |-> 0, m |-> 0, i |-> 0, s |-> s] : s \in Samples}
    \cup {[kind |-> "load_table_bound", d |-> 0, m |-> 0, i |-> 0, s |-> 0]}
    \cup {[kind |-> "temp_exists", d |-> d, m |-> 0, i |-> 0, s |-> 0] : d \in depths}

\* The kernel before the first cell, on the input tree (r, dv), ./03.packaged
\* empty.
Fresh(r, dv) ==
    /\ reads = r
    /\ dev = dv
    /\ pc = Entry("mkdirs")
    /\ raised = {}
    /\ readLog = {}
    /\ taxa_lookup = FALSE
    /\ map_ = [rows |-> {}, nan |-> {}, alpha |-> EmptyFn]
    /\ alpha_ = <<>>
    /\ collated = <<>>
    /\ sample_ids = EmptyFn
    /\ alphaDir = [x \in depths \X alpha_metrics |->
                     [exists |-> FALSE, origin |-> <<0, 0, 0>>, vals |-> EmptyFn]]
    /\ tableTemp = [exists |-> FALSE, ids |-> {}, depth |-> 0, taxonomy |-> FALSE]
    /\ rare = [d \in depths |-> [exists |-> FALSE, ids |-> {}, depth |-> 0, taxonomy |-> FALSE]]
    /\ collated_alpha = [d \in depths |-> [exists |-> FALSE, index |-> {}, cols |-> <<>>]]
    /\ sample_id = [d \in depths |-> NoFile]
    /\ ag_map = [d \in depths |-> [exists |-> FALSE, rows |-> {}, alpha |-> EmptyFn]]
    /\ deblur = [d \in depths |-> NoFile]
    /\ picrust = [x \in depths \X (1..Len(collapse_levels)) |-> NoFile]
    /\ picrust_full = [d \in depths |-> NoFile]
    /\ distance = [x \in depths \X (1..Len(beta_metrics)) |->
                     [exists |-> FALSE, origin |-> <<0, 0>>]]
    /\ temp_dir = [d \in depths |->
                     [exists |-> dv.kind = "temp_exists" /\ dv.d = d, entries |-> {}]]
    /\ listed = [x \in depths \X (1..Len(beta_metrics)) |-> {}]

Init ==
    /\ \E r \in [Samples -> 0..NumDepths] :
          /\ \E s \in Samples : r[s] = NumDepths
          /\ \E dv \in Deviations(r) : Fresh(r, dv)
    /\ md = PyNone
    /\ stored = <<>>
    /\ parsed = PyNone
    /\ rt = "idle"

Next ==
    \/ MakeDirs
    \/ TaxaLookup
    \/ RarefiedExport
    \/ LoadMap
    \/ AlphaIter
    \/ AlphaMetricEnd
    \/ AlphaDepthEnd
    \/ LoadPicrust
    \/ SubsetTables
    \/ LoadFull
    \/ FullPicrust
    \/ BetaSetup
    \/ BetaMetric
    \/ BetaCleanup

Spec == Init /\ [][Next]_vars

\* The round trip of one metadata value through formatter and parser.
InitRoundTrip ==
    /\ Fresh([s \in Samples |-> NumDepths], NoDev)
    /\ md \in MetadataValues
    /\ stored = <<>>
    /\ parsed = PyNone
    /\ rt = "value"

NextRoundTrip == Format \/ Parse

SpecRoundTrip == InitRoundTrip /\ [][NextRoundTrip]_vars

\* =================================================================== claims
After(c) == CellIndex(pc.cell) > CellIndex(c)

\* The alpha loop has run its pass (d, m, i).
AlphaPast(d, m, i) ==
    \/ After("alpha")
    \/ /\ pc.cell = "alpha"
       /\ LET pm == IF pc.step = "depth_end" THEN NumMetrics + 1 ELSE pc.m
              pi == IF pc.step = "metric_end" THEN NumIter ELSE pc.i
          IN  \/ pc.d > d
              \/ pc.d = d /\ pm > m
              \/ pc.d = d /\ pm = m /\ pi > i

\* The beta loop has run its pass (d, m).
BetaPast(d, m) ==
    \/ After("beta")
    \/ /\ pc.cell = "beta"
       /\ \/ pc.d > d
          \/ pc.d = d /\ pc.step = "cleanup"
          \/ pc.d = d /\ pc.step = "metric" /\ pc.m > m

\* The cells that produce the per-depth files ran to their end.
CompleteRun == pc.cell = "done" /\ raised \cap {"loadmap", "alpha", "subset", "full"} = {}

\* C1: after a complete run, for every depth D the sample IDs of each table
\* filtered for D (unrarefied, three collapsed PICRUSt, full PICRUSt) are
\* exactly the row IDs of ag_map_with_alpha.txt of D.
C1_FilteredIdsEqualMetadataRows ==
    CompleteRun =>
        \A d \in depths :
            /\ deblur[d].exists /\ deblur[d].ids = ag_map[d].rows
            /\ \A k \in 1..Len(collapse_levels) :
                   picrust[<<d, k>>].exists /\ picrust[<<d, k>>].ids = ag_map[d].rows
            /\ picrust_full[d].exists /\ picrust_full[d].ids = ag_map[d].rows

\* C2: for every depth D, sample_id.txt and collated_alpha.txt are written
\* together and the IDs of sample_id.txt are exactly the row index of
\* collated_alpha.txt, whatever samples the per-iteration files list.
C2_SampleIdsEqualCollatedIndex ==
    \A d \in depths :
        /\ sample_id[d].exists <=> collated_alpha[d].exists
        /\ sample_id[d].ids = collated_alpha[d].index
        /\ collated_alpha[d].exists =>
               collated_alpha[d].index = ConcatIndex(collated_alpha[d].cols)

\* C2 witness: the files of a depth are written from per-iteration files that
\* do not list the same samples.
C2_Witness ==
    /\ dev.kind \in {"alpha_absent", "alpha_extra"}
    /\ sample_id[dev.d].exists
    /\ sample_id[dev.d].ids # {}

\* The columns of collated_alpha.txt of depth d for metric m.
IterColumns(d, m) ==
    {k \in 1..Len(collated_alpha[d].cols) :
        /\ collated_alpha[d].cols[k].label[1] = m
        /\ collated_alpha[d].cols[k].label[2] = d
        /\ collated_alpha[d].cols[k].label[3] \in Iters}

\* C4 as stated: every value of the metadata column M_D is the sum of the
\* NumIter per-iteration values of the sample in collated_alpha.txt of D,
\* divided by NumIter.
C4_MeanOfAllIterations ==
    \A d \in depths : \A m \in alpha_metrics :
        (collated_alpha[d].exists /\ <<m, d>> \in DOMAIN map_.alpha) =>
            LET cols == collated_alpha[d].cols
                ks == IterColumns(d, m)
                column == map_.alpha[<<m, d>>]
            IN  /\ Cardinality(ks) = NumIter
                /\ \A s \in DOMAIN column :
                       /\ \A k \in ks : s \in DOMAIN cols[k].vals
                       /\ column[s].num * NumIter =
                              column[s].den * SumOver([k \in ks |-> cols[k].vals[s]], ks)

\* C4 amended: every value of the metadata column M_D is the arithmetic mean
\* of those of the NumIter per-iteration values of the sample that are present
\* in collated_alpha.txt of D (their sum divided by their number, at least one).
C4_MeanOfPresentIterations ==
    \A d \in depths : \A m \in alpha_metrics :
        (collated_alpha[d].exists /\ <<m, d>> \in DOMAIN map_.alpha) =>
            LET cols == collated_alpha[d].cols
                ks == IterColumns(d, m)
                column == map_.alpha[<<m, d>>]
            IN  /\ Cardinality(ks) = NumIter
                /\ \A s \in DOMAIN column :
                       LET have == {k \in ks : s \in DOMAIN cols[k].vals} IN
                       /\ have # {}
                       /\ column[s].den > 0
                       /\ column[s].num * Cardinality(have) =
                              column[s].den * SumOver([k \in have |-> cols[k].vals[s]], have)

\* C4 witness: a depth is written in which a sample has a mean although one of
\* its per-iteration values is missing.
C4_Witness ==
    /\ dev.kind = "alpha_absent"
    /\ collated_alpha[dev.d].exists
    /\ dev.s \in DOMAIN map_.alpha[<<dev.m, dev.d>>]

\* C5: ag_map_with_alpha.txt of depth D has the mean column of every metric
\* for every depth d <= D and for no depth d > D, and a column written for an
\* earlier depth is found unchanged in every later file and in the accumulated
\* table.
C5_ColumnsUpToDepth ==
    \A d \in depths :
        ag_map[d].exists =>
            /\ DOMAIN ag_map[d].alpha =
                   {<<m, e>> : m \in alpha_metrics, e \in 1..d}
            /\ \A c \in DOMAIN ag_map[d].alpha : \A s \in ag_map[d].rows :
                   /\ c \in DOMAIN map_.alpha
                   /\ s \in DOMAIN map_.alpha[c]
                   /\ map_.alpha[c][s] = ag_map[d].alpha[c][s]
            /\ \A e \in 1..d :
                   /\ ag_map[e].exists
                   /\ ag_map[d].rows \subseteq ag_map[e].rows
                   /\ \A c \in DOMAIN ag_map[e].alpha : \A s \in ag_map[d].rows :
                          ag_map[d].alpha[c][s] = ag_map[e].alpha[c][s]

\* C5 witness: the file of the last depth is written with rows in it.
C5_Witness ==
    /\ ag_map[NumDepths].exists
    /\ ag_map[NumDepths].rows # {}
    /\ ag_map[1].rows # ag_map[NumDepths].rows

\* The alpha artifacts of depth d list only samples with at least depths[d]
\* observations.
UpstreamSound(d) ==
    \A m \in alpha_metrics : \A i \in Iters :
        \A s \in AlphaArtifactSamples(d, m, i) : reads[s] >= d

\* C6: given alpha artifacts of depth D that list only samples with at least D
\* observations, the unrarefied table packaged for D holds no sample with
\* fewer than D observations: it is the input table subset to sample_id.txt
\* of D, whose IDs all occur in some alpha artifact of D.
C6_UnrarefiedExcludesShallow ==
    \A d \in depths :
        deblur[d].exists =>
            /\ sample_id[d].exists
            /\ deblur[d].ids = InputTableIds \cap sample_id[d].ids
            /\ \A s \in sample_id[d].ids :
                   \E m \in alpha_metrics : \E i \in Iters :
                       AlphaArtifactExists(d, m, i) /\ s \in AlphaArtifactSamples(d, m, i)
            /\ UpstreamSound(d) => \A s \in deblur[d].ids : reads[s] >= d

\* C6 witness: a table is packaged for a depth that a sample of the input
\* table does not reach, and does not hold that sample.
C6_Witness ==
    \E d \in depths : \E s \in InputTableIds :
        /\ deblur[d].exists
        /\ UpstreamSound(d)
        /\ deblur[d].ids # {}
        /\ reads[s] < d
        /\ s \notin deblur[d].ids

\* C7: once the rarefied-table cell has run, every depth has its packaged
\* rarefied table: the samples of the table exported from the artifact of the
\* depth, with the taxonomy of the lookup attached.
C7_RarefiedPackaged ==
    After("rarefied") => \A d \in depths : rare[d] = AddTaxonomy(ExportedRarefied(d))

\* C8: every file a cell reads lies under ./02.build_package/ or
\* ./02.raw_tables/, or was written earlier in the run.
C8_ReadsOnlyInputsOrWritten ==
    \A r \in readLog : r.tree \in {"02.build_package", "02.raw_tables"} \/ r.present

\* C9: when every extraction succeeds, each listing of the temporary directory
\* holds exactly one extracted directory, the file moved to distance/M.txt of
\* depth D comes from the artifact of (D, M), and after the last metric of D
\* the temporary directory is empty and removed.
C9_BetaRelocation ==
    dev.kind # "beta_missing" =>
        /\ "beta" \notin raised
        /\ \A d \in depths : \A m \in 1..Len(beta_metrics) :
               BetaPast(d, m) =>
                   /\ Cardinality(listed[<<d, m>>]) = 1
                   /\ distance[<<d, m>>].exists
                   /\ distance[<<d, m>>].origin = <<d, m>>
        /\ \A d \in depths :
               (After("beta") \/ (pc.cell = "beta" /\ pc.d > d)) =>
                   /\ ~temp_dir[d].exists
                   /\ temp_dir[d].entries = {}

\* C9 witness: the whole beta cell has run, on a temporary directory that was
\* there before.
C9_Witness ==
    /\ pc.cell = "done"
    /\ dev.kind = "temp_exists"
    /\ \A d \in depths : \A m \in 1..Len(beta_metrics) : distance[<<d, m>>].exists

\* Data read for pass (d, m, i) of the alpha loop is that of artifact (d, m, i).
RightlyLabelled(col) == col.origin = <<col.label[2], col.label[1], col.label[3]>>

\* C10: a missing artifact of (D, M) stops the cell at that step, no output
\* is written for it, and nothing produced for another metric or iteration is
\* ever held or written under its name.
C10_MissingArtifactStops ==
    /\ (dev.kind = "alpha_missing" /\ AlphaPast(dev.d, dev.m, dev.i)) =>
           /\ pc.cell # "alpha"
           /\ "alpha" \in raised
           /\ ~collated_alpha[dev.d].exists
    /\ (dev.kind = "beta_missing" /\ BetaPast(dev.d, dev.m)) =>
           /\ "beta" \in raised
           /\ ~distance[<<dev.d, dev.m>>].exists
    /\ \A k \in 1..Len(alpha_) : RightlyLabelled(alpha_[k])
    /\ \A d \in depths : \A k \in 1..Len(collated_alpha[d].cols) :
           RightlyLabelled(collated_alpha[d].cols[k])
    /\ \A x \in DOMAIN distance : distance[x].exists => distance[x].origin = x

\* C3: a list of strings serialised by the formatter and parsed back from the
\* stored array by picrust_parser is the list again, same elements, same order,
\* same nesting.
C3_RoundTrip == rt = "parsed" => parsed = md
====
